---- MODULE Spec2Model ----
(***************************************************************************)
(* Dawarich Route Editor (route_editor.py): the points table, the two      *)
(* mutating operations add_point_to_route and delete_point together with   *)
(* their Flask handlers, and the insertion-timestamp algorithm             *)
(* find_insertion_timestamp with its haversine penalty.                    *)
(*                                                                         *)
(* Conventions                                                             *)
(*  - a datetime is [day, second, microsecond]: a day number, the second   *)
(*    of that day (0..86399) and the microsecond (0..999999); a timedelta  *)
(*    is [days, seconds, microseconds], normalised the way Python keeps    *)
(*    it.  DATE(recorded_at) is the day field.                             *)
(*  - coordinates are whole degrees, distances whole metres.               *)
(*  - Python None / SQL NULL is NULL; a key missing from the JSON body is  *)
(*    ABSENT; a value float() cannot parse is BADSTR.                      *)
(*  - sequences are 1-based: Python's best_position p is p + 1 here.       *)
(*  - the points table has no uniqueness constraint on (user_id,           *)
(*    recorded_at): the source declares none and checks for a collision    *)
(*    itself.  A store that refuses a statement is the "execute" fault.    *)
(*  - last records the most recent call: its arguments, the list it        *)
(*    fetched, how it ended and the table before it.                       *)
(*  - Spec runs the calls one after another, each as one step.  SpecRace   *)
(*    runs add_point_to_route for two requests at once, a step for each    *)
(*    round trip to the store; calls holds each request's position.        *)
(***************************************************************************)
EXTENDS Integers, Sequences, FiniteSets, TLC

VARIABLES points, next_id, last, ops, calls

vars == <<points, next_id, last, ops, calls>>

NULL == 0 - 1
ABSENT == 0 - 2
BADSTR == 0 - 3

(* ------------------------------ bounds --------------------------------- *)
MaxOps == 3

(* ------------------------- datetime, timedelta ------------------------- *)
SecondsPerDay == 86400
MicrosPerSecond == 1000000

DT(d, s, us) == [day |-> d, second |-> s, microsecond |-> us]

TD(d, s, us) ==
  LET s1 == s + (us \div MicrosPerSecond)
  IN  [days |-> d + (s1 \div SecondsPerDay),
       seconds |-> s1 % SecondsPerDay,
       microseconds |-> us % MicrosPerSecond]

timedelta(secs) == TD(0, secs, 0)

DtLess(a, b) ==
  \/ a.day < b.day
  \/ a.day = b.day /\ a.second < b.second
  \/ a.day = b.day /\ a.second = b.second /\ a.microsecond < b.microsecond

DtSub(a, b) ==
  TD(a.day - b.day, a.second - b.second, a.microsecond - b.microsecond)

DtAdd(a, td) ==
  LET n == TD(a.day + td.days, a.second + td.seconds,
              a.microsecond + td.microseconds)
  IN  DT(n.days, n.seconds, n.microseconds)

(* round-half-up instead of round-half-even *)
TdHalfUp(td) ==
  LET s2 == (td.days % 2) * SecondsPerDay + td.seconds
      us2 == (s2 % 2) * MicrosPerSecond + td.microseconds
  IN  TD(td.days \div 2, s2 \div 2, (us2 \div 2) + (us2 % 2))

(* timedelta / 2: the total in microseconds divided by two, a half going   *)
(* to the even neighbour                                                   *)
TdHalf(td) ==
  LET s2 == (td.days % 2) * SecondsPerDay + td.seconds
      us2 == (s2 % 2) * MicrosPerSecond + td.microseconds
      q == us2 \div 2
      up == IF us2 % 2 = 1 /\ q % 2 = 1 THEN 1 ELSE 0
  IN  TD(td.days \div 2, s2 \div 2, q + up)

(* datetime.isoformat(): the date and the time of day written out field by *)
(* field; fromisoformat() reads the fields back                            *)
isoformat(dt) ==
  <<dt.day, dt.second \div 3600, (dt.second % 3600) \div 60,
    dt.second % 60, dt.microsecond>>

fromisoformat(s) == DT(s[1], s[2] * 3600 + s[3] * 60 + s[4], s[5])

(* ----------------------------- input sets ------------------------------ *)
Users == {1, 2}
Dates == {0, 1}
Coordinates == {<<1, 2>>, <<3, 3>>, <<95, 1>>}
Altitudes == {NULL, 100}
Accuracies == {NULL, 0, 5}
AddFaults == {"none", "read", "connect", "execute"}
DeleteFaults == {"none", "connect", "execute"}

Body(lat, lon, alt, acc) ==
  [latitude |-> lat, longitude |-> lon, altitude |-> alt, accuracy |-> acc]

(* JSON bodies of POST .../points: every coordinate with the optional      *)
(* fields left out, every accuracy and every altitude at one coordinate,   *)
(* and the bodies the handler turns away                                   *)
Bodies ==
  {Body(c[1], c[2], NULL, NULL) : c \in Coordinates}
    \cup {Body(1, 2, NULL, ac) : ac \in Accuracies}
    \cup {Body(1, 2, al, NULL) : al \in Altitudes}
    \cup {Body(ABSENT, 2, NULL, NULL), Body(1, ABSENT, NULL, NULL),
          Body(BADSTR, 2, NULL, NULL)}

(* a store fault is tried with one body, a body with a healthy store *)
AddRequests ==
  {<<b, "none">> : b \in Bodies}
    \cup {<<Body(1, 2, NULL, NULL), f>> : f \in AddFaults}

(* DELETE requests <<point_id, fault>>: a store fault is tried with one    *)
(* point id, every point id with a healthy store                           *)
DeleteRequests(ids) ==
  {<<i, "none">> : i \in ids} \cup {<<2, f>> : f \in DeleteFaults}

(* ------------------------------ the store ------------------------------ *)
Row(id, u, lat, lon, at, acc, alt, spd, bat) ==
  [id |-> id, user_id |-> u, latitude |-> lat, longitude |-> lon,
   recorded_at |-> at, accuracy |-> acc, altitude |-> alt,
   speed |-> spd, battery |-> bat]

(* the points table before the first call: user 1 has one point late on    *)
(* day 0 and, on day 1, three located points and one row without           *)
(* coordinates; user 2 has one point on day 1                              *)
SeedPoints ==
  { Row(1, 1, 0, 0, DT(0, 86370, 0), 10, NULL, NULL, NULL),
    Row(2, 1, 0, 0, DT(1, 0, 0), 10, NULL, NULL, NULL),
    Row(3, 1, NULL, NULL, DT(1, 5, 0), NULL, NULL, NULL, NULL),
    Row(4, 1, 1, 2, DT(1, 10, 0), 10, NULL, NULL, NULL),
    Row(5, 1, 3, 3, DT(1, 10, 1), 10, NULL, NULL, NULL),
    Row(6, 2, 1, 2, DT(1, 5, 0), 10, NULL, NULL, NULL) }

FirstFreeId == Cardinality(SeedPoints) + 1
PointIds == 1 .. (FirstFreeId - 1 + MaxOps)

(* every order ORDER BY recorded_at ASC may return: rows with equal        *)
(* timestamps come in either order                                         *)
RECURSIVE OrderByRecordedAt(_)
OrderByRecordedAt(S) ==
  IF S = {} THEN {<<>>}
  ELSE UNION { { <<m>> \o t : t \in OrderByRecordedAt(S \ {m}) } :
               m \in {x \in S : \A y \in S :
                        ~DtLess(y.recorded_at, x.recorded_at)} }

RouteRows(rows, user_id, route_date) ==
  {r \in rows : /\ r.user_id = user_id
                /\ r.recorded_at.day = route_date
                /\ r.latitude # NULL
                /\ r.longitude # NULL}

(* the lists get_route_points may return, recorded_at as an ISO string *)
get_route_points(rows, user_id, route_date) ==
  { [i \in 1 .. Len(s) |-> [s[i] EXCEPT !.recorded_at = isoformat(@)]] :
      s \in OrderByRecordedAt(RouteRows(rows, user_id, route_date)) }

(* ------------------------------ haversine ------------------------------ *)
HaversineMetres ==
  <<0, 0, 0, 0>> :> 0 @@
  <<0, 0, 1, 2>> :> 248629 @@
  <<0, 0, 3, 3>> :> 471652 @@
  <<0, 0, 95, 1>> :> 10563433 @@
  <<1, 2, 0, 0>> :> 248629 @@
  <<1, 2, 1, 2>> :> 0 @@
  <<1, 2, 3, 3>> :> 248607 @@
  <<1, 2, 95, 1>> :> 10452238 @@
  <<3, 3, 0, 0>> :> 471652 @@
  <<3, 3, 1, 2>> :> 248607 @@
  <<3, 3, 3, 3>> :> 0 @@
  <<3, 3, 95, 1>> :> 10229595 @@
  <<95, 1, 0, 0>> :> 10563433 @@
  <<95, 1, 1, 2>> :> 10452238 @@
  <<95, 1, 3, 3>> :> 10229595 @@
  <<95, 1, 95, 1>> :> 0

(* R * c of the haversine formula, rounded to the metre, at the whole-     *)
(* degree coordinates the model uses                                       *)
haversine_distance(lat1, lon1, lat2, lon2) ==
  HaversineMetres[<<lat1, lon1, lat2, lon2>>]

(* ----------------------- find_insertion_timestamp ---------------------- *)
Inf == 2147483647
AppendSeconds == 30
ShiftSeconds == 5
DefaultAccuracy == 20

distance_penalty(pts, i, latitude, longitude) ==
  haversine_distance(latitude, longitude, pts[i].latitude, pts[i].longitude)
    + haversine_distance(latitude, longitude,
                         pts[i + 1].latitude, pts[i + 1].longitude)
    - haversine_distance(pts[i].latitude, pts[i].longitude,
                         pts[i + 1].latitude, pts[i + 1].longitude)

(* the loop with <= for <: a later gap of equal penalty replaces the first *)
RECURSIVE ScanGapsLastWins(_, _, _, _, _, _)
ScanGapsLastWins(pts, latitude, longitude, i, best_position, min_distance_sum) ==
  IF i > Len(pts) - 1 THEN best_position
  ELSE IF distance_penalty(pts, i, latitude, longitude) <= min_distance_sum
       THEN ScanGapsLastWins(pts, latitude, longitude, i + 1, i,
                             distance_penalty(pts, i, latitude, longitude))
       ELSE ScanGapsLastWins(pts, latitude, longitude, i + 1,
                             best_position, min_distance_sum)

(* for i in range(len(points) - 1): keep the first strictly smaller penalty *)
RECURSIVE ScanGaps(_, _, _, _, _, _)
ScanGaps(pts, latitude, longitude, i, best_position, min_distance_sum) ==
  IF i > Len(pts) - 1 THEN best_position
  ELSE IF distance_penalty(pts, i, latitude, longitude) < min_distance_sum
       THEN ScanGaps(pts, latitude, longitude, i + 1, i,
                     distance_penalty(pts, i, latitude, longitude))
       ELSE ScanGaps(pts, latitude, longitude, i + 1,
                     best_position, min_distance_sum)

NoTimestamp == DT(0 - 1, 0, 0)

(* the single-point branch with no 30 seconds added *)
AppendAtEndNoStep(pts) ==
  fromisoformat(pts[Len(pts)].recorded_at)

(* points[-1] + 30 s *)
AppendAtEnd(pts) ==
  DtAdd(fromisoformat(pts[Len(pts)].recorded_at), timedelta(AppendSeconds))

(* time1 + (time2 - time1) / 2 *)
Midpoint(time1, time2) == DtAdd(time1, TdHalf(DtSub(time2, time1)))

(* [exception, timestamp, best_position]: IndexError on an empty list      *)
(* (points[-1]); best_position is 0 where no gap is chosen                 *)
find_insertion_timestamp(pts, latitude, longitude) ==
  IF Len(pts) < 2
  THEN IF Len(pts) = 0
       THEN [exception |-> "IndexError", timestamp |-> NoTimestamp,
             best_position |-> 0]
       ELSE [exception |-> "", timestamp |-> AppendAtEnd(pts),
             best_position |-> 0]
  ELSE LET best_position == ScanGaps(pts, latitude, longitude, 1, 1, Inf)
       IN  [exception |-> "",
            timestamp |-> Midpoint(fromisoformat(pts[best_position].recorded_at),
                                   fromisoformat(pts[best_position + 1].recorded_at)),
            best_position |-> best_position]

(* -------------------------- add_point_to_route ------------------------- *)
NoResult ==
  [success |-> FALSE, error |-> "", message |-> "", point_id |-> NULL,
   timestamp |-> <<>>]

Failure(e) == [NoResult EXCEPT !.error = e]

Added(point_id, timestamp) ==
  [success |-> TRUE, error |-> "", message |-> "Point added successfully",
   point_id |-> point_id, timestamp |-> isoformat(timestamp)]

(* SELECT id FROM points WHERE user_id = %s AND recorded_at = %s *)
TimestampTaken(rows, user_id, timestamp) ==
  \E r \in rows : r.user_id = user_id /\ r.recorded_at = timestamp

(* accuracy or 20.0: None and 0 are both falsy *)
AccuracyOrDefault(accuracy) ==
  IF accuracy = NULL \/ accuracy = 0 THEN DefaultAccuracy ELSE accuracy

(* what one call does: how it ends (core: "returned" or "raised"), the     *)
(* dict it returns, the table and the id sequence afterwards, and the      *)
(* values it went through                                                  *)
Outcome(core, exception, result, rows, id, best_position, candidate, collided) ==
  [core |-> core, exception |-> exception, result |-> result,
   points |-> rows, next_id |-> id, best_position |-> best_position,
   candidate |-> candidate, collided |-> collided]

Raised(exception, rows, id) ==
  Outcome("raised", exception, NoResult, rows, id, 0, NoTimestamp, FALSE)

(* pts is the list get_route_points returned; fault is where the store     *)
(* fails: "read" in get_route_points, "connect" at connect_db of this      *)
(* method, "execute" at a statement inside the try                         *)
add_point_to_route(rows, id, user_id, route_date, latitude, longitude, altitude, accuracy, pts, fault) ==
  LET found == find_insertion_timestamp(pts, latitude, longitude)
      collided == TimestampTaken(rows, user_id, found.timestamp)
      timestamp == IF collided
                   THEN DtAdd(found.timestamp, timedelta(ShiftSeconds))
                   ELSE found.timestamp
      row == Row(id, user_id, latitude, longitude, timestamp,
                 AccuracyOrDefault(accuracy), altitude, NULL, NULL)
  IN  IF fault = "read" THEN Raised("OperationalError", rows, id)
      ELSE IF found.exception # "" THEN Raised(found.exception, rows, id)
      ELSE IF fault = "connect" THEN Raised("OperationalError", rows, id)
      ELSE IF fault = "execute"
           THEN Outcome("returned", "", Failure("DatabaseError"), rows, id,
                        found.best_position, found.timestamp, FALSE)
      ELSE Outcome("returned", "", Added(id, timestamp), rows \cup {row},
                   id + 1, found.best_position, found.timestamp, collided)

(* ----------------------------- delete_point ---------------------------- *)
Deleted ==
  [NoResult EXCEPT !.success = TRUE, !.message = "Point deleted successfully"]

(* DELETE ... WHERE id = %s, the owner not checked *)
DeleteTargetsAnyOwner(rows, user_id, point_id) ==
  {r \in rows : r.id = point_id}

(* DELETE FROM points WHERE id = %s AND user_id = %s RETURNING id *)
DeleteTargets(rows, user_id, point_id) ==
  {r \in rows : r.id = point_id /\ r.user_id = user_id}

delete_point(rows, id, user_id, point_id, fault) ==
  IF fault = "connect" THEN Raised("OperationalError", rows, id)
  ELSE IF fault = "execute"
       THEN Outcome("returned", "", Failure("DatabaseError"), rows, id,
                    0, NoTimestamp, FALSE)
  ELSE IF DeleteTargets(rows, user_id, point_id) # {}
       THEN Outcome("returned", "", Deleted,
                    rows \ DeleteTargets(rows, user_id, point_id), id,
                    0, NoTimestamp, FALSE)
  ELSE Outcome("returned", "", Failure("Point not found or not authorized"),
               rows, id, 0, NoTimestamp, FALSE)

(* ---------------------------- Flask handlers --------------------------- *)
(* the status the handler answers with: 500 from its except clause *)
StatusOf(out, ok) ==
  IF out.core = "raised" THEN 500
  ELSE IF out.result.success THEN ok
  ELSE 400

Call(op, user_id, route_date, data, point_id, fault, pts, out, status) ==
  [op |-> op, user_id |-> user_id, route_date |-> route_date, data |-> data,
   point_id |-> point_id, fault |-> fault, route |-> pts,
   core |-> out.core, exception |-> out.exception, result |-> out.result,
   best_position |-> out.best_position, candidate |-> out.candidate,
   collided |-> out.collided, status |-> status, before |-> points]

NoBody == Body(ABSENT, ABSENT, NULL, NULL)

NotCalled(exception) ==
  Outcome("not_called", exception, NoResult, points, next_id, 0,
          NoTimestamp, FALSE)

(* POST /api/users/<user_id>/routes/<route_date>/points *)
add_point(user_id, route_date, data, fault) ==
  /\ ops < MaxOps
  /\ ops' = ops + 1
  /\ \/ /\ data.latitude = ABSENT \/ data.longitude = ABSENT
        /\ last' = Call("add_point", user_id, route_date, data, NULL, fault,
                        <<>>, NotCalled(""), 400)
        /\ UNCHANGED <<points, next_id>>
     \/ /\ data.latitude # ABSENT /\ data.longitude # ABSENT
        /\ data.latitude = BADSTR \/ data.longitude = BADSTR
        /\ last' = Call("add_point", user_id, route_date, data, NULL, fault,
                        <<>>, NotCalled("ValueError"), 500)
        /\ UNCHANGED <<points, next_id>>
     \/ /\ data.latitude \notin {ABSENT, BADSTR}
        /\ data.longitude \notin {ABSENT, BADSTR}
        /\ \E pts \in get_route_points(points, user_id, route_date) :
             LET out == add_point_to_route(points, next_id, user_id, route_date,
                                           data.latitude, data.longitude,
                                           data.altitude, data.accuracy,
                                           pts, fault)
             IN  /\ points' = out.points
                 /\ next_id' = out.next_id
                 /\ last' = Call("add_point", user_id, route_date, data, NULL,
                                 fault, pts, out, StatusOf(out, 201))

(* DELETE /api/users/<user_id>/points/<point_id> *)
delete_point_route(user_id, point_id, fault) ==
  /\ ops < MaxOps
  /\ ops' = ops + 1
  /\ LET out == delete_point(points, next_id, user_id, point_id, fault)
     IN  /\ points' = out.points
         /\ next_id' = out.next_id
         /\ last' = Call("delete_point", user_id, NULL, NoBody, point_id, fault,
                         <<>>, out, StatusOf(out, 200))

(* ----------------------------- read queries ---------------------------- *)
MinRoutePoints == 5
DefaultDaysBack == 30
LookbackDays == {0, 1, DefaultDaysBack}
Clocks == {DT(1, 9, 0), DT(2, 0, 0)}
ListFaults == {"none", "connect"}

(* cutoff_date = datetime.now() - timedelta(days=days_back) *)
CutoffDate(now, days_back) == DtAdd(now, TD(0 - days_back, 0, 0))

(* the WHERE clause of get_user_routes without the IS NOT NULL tests *)
WindowRowsWithNulls(rows, user_id, cutoff_date) ==
  {r \in rows : /\ r.user_id = user_id
                /\ ~DtLess(r.recorded_at, cutoff_date)}

(* WHERE user_id = %s AND recorded_at >= %s AND latitude IS NOT NULL AND   *)
(* longitude IS NOT NULL                                                   *)
WindowRows(rows, user_id, cutoff_date) ==
  {r \in rows : /\ r.user_id = user_id
                /\ ~DtLess(r.recorded_at, cutoff_date)
                /\ r.latitude # NULL
                /\ r.longitude # NULL}

Least(S) == CHOOSE x \in S : \A y \in S : x <= y
Greatest(S) == CHOOSE x \in S : \A y \in S : x >= y
Earliest(S) == CHOOSE x \in S : \A y \in S : ~DtLess(y, x)
Latest(S) == CHOOSE x \in S : \A y \in S : ~DtLess(x, y)

(* one row of the GROUP BY DATE(recorded_at) result *)
RouteSummary(group, route_date) ==
  [route_date |-> route_date,
   point_count |-> Cardinality(group),
   start_time |-> Earliest({r.recorded_at : r \in group}),
   end_time |-> Latest({r.recorded_at : r \in group}),
   min_lat |-> Least({r.latitude : r \in group}),
   max_lat |-> Greatest({r.latitude : r \in group}),
   min_lon |-> Least({r.longitude : r \in group}),
   max_lon |-> Greatest({r.longitude : r \in group})]

(* ORDER BY route_date DESC *)
RECURSIVE NewestFirst(_)
NewestFirst(days) ==
  IF days = {} THEN <<>>
  ELSE <<Greatest(days)>> \o NewestFirst(days \ {Greatest(days)})

(* the list get_user_routes returns: one row for each date with 5 rows or *)
(* more, newest first                                                      *)
get_user_routes(rows, user_id, days_back, now) ==
  LET window == WindowRows(rows, user_id, CutoffDate(now, days_back))
      OnDay(d) == {r \in window : r.recorded_at.day = d}
      days == NewestFirst({d \in {r.recorded_at.day : r \in window} :
                             Cardinality(OnDay(d)) >= MinRoutePoints})
  IN  [i \in 1 .. Len(days) |-> RouteSummary(OnDay(days[i]), days[i])]

(* what a read handler leaves in last: the list it answered with is route  *)
Listed(op, user_id, route_date, days_back, now, fault, listing) ==
  [op |-> op, user_id |-> user_id, route_date |-> route_date,
   days_back |-> days_back, now |-> now, data |-> NoBody, point_id |-> NULL,
   fault |-> fault, route |-> listing,
   core |-> IF fault = "connect" THEN "raised" ELSE "returned",
   exception |-> IF fault = "connect" THEN "OperationalError" ELSE "",
   result |-> NoResult, best_position |-> 0, candidate |-> NoTimestamp,
   collided |-> FALSE, status |-> IF fault = "connect" THEN 500 ELSE 200,
   before |-> points]

(* GET /api/users/<user_id>/routes?days=<days_back>, answered at time now *)
get_user_routes_route(user_id, days_back, now, fault) ==
  /\ ops < MaxOps
  /\ ops' = ops + 1
  /\ last' = Listed("get_user_routes", user_id, NULL, days_back, now, fault,
                    IF fault = "connect" THEN <<>>
                    ELSE get_user_routes(points, user_id, days_back, now))
  /\ UNCHANGED <<points, next_id>>

(* GET /api/users/<user_id>/routes/<route_date>/points *)
get_route_points_route(user_id, route_date, fault) ==
  /\ ops < MaxOps
  /\ ops' = ops + 1
  /\ \E pts \in get_route_points(points, user_id, route_date) :
       last' = Listed("get_route_points", user_id, route_date, NULL,
                      NoTimestamp, fault,
                      IF fault = "connect" THEN <<>> ELSE pts)
  /\ UNCHANGED <<points, next_id>>

(* ---------------------------- specification ---------------------------- *)
Procs == {1, 2}

(* a request being served: where it stands (pc), its arguments, and what   *)
(* add_point_to_route holds in its locals                                  *)
InFlight(pc, user_id, route_date, data, fault, pts, best_position, candidate, collided, timestamp, point_id) ==
  [pc |-> pc, user_id |-> user_id, route_date |-> route_date, data |-> data,
   fault |-> fault, route |-> pts, best_position |-> best_position,
   candidate |-> candidate, collided |-> collided, timestamp |-> timestamp,
   point_id |-> point_id]

Idle ==
  InFlight("idle", NULL, NULL, NoBody, "none", <<>>, 0, NoTimestamp, FALSE,
           NoTimestamp, NULL)

Init ==
  /\ calls = [p \in Procs |-> Idle]
  /\ points = SeedPoints
  /\ next_id = FirstFreeId
  /\ ops = 0
  /\ last = [op |-> "none", user_id |-> NULL, route_date |-> NULL,
             data |-> NoBody, point_id |-> NULL, fault |-> "none",
             route |-> <<>>, core |-> "not_called", exception |-> "",
             result |-> NoResult, best_position |-> 0,
             candidate |-> NoTimestamp, collided |-> FALSE, status |-> 0,
             before |-> SeedPoints]

Handle ==
  \/ \E user_id \in Users, route_date \in Dates, req \in AddRequests :
       add_point(user_id, route_date, req[1], req[2])
  \/ \E user_id \in Users, req \in DeleteRequests(PointIds) :
       delete_point_route(user_id, req[1], req[2])
  \/ \E user_id \in Users, days_back \in LookbackDays, now \in Clocks, fault \in ListFaults :
       get_user_routes_route(user_id, days_back, now, fault)
  \/ \E user_id \in Users, route_date \in Dates, fault \in ListFaults :
       get_route_points_route(user_id, route_date, fault)

(* one request at a time, served to its end *)
Next == Handle /\ UNCHANGED calls

Spec == Init /\ [][Next]_vars

(* ------------------- add_point_to_route, interleaved ------------------- *)
(* the timestamp the INSERT writes, were the collision looked for again    *)
(* in the same step                                                        *)
InsertTimestampRechecked(rows, c) ==
  IF TimestampTaken(rows, c.user_id, c.timestamp)
  THEN DtAdd(c.timestamp, timedelta(ShiftSeconds))
  ELSE c.timestamp

(* the timestamp the INSERT writes: the local the check left, whatever the *)
(* table holds by now                                                      *)
InsertTimestamp(rows, c) == c.timestamp

(* the handler up to the collision check: the body is read, the route      *)
(* fetched, the insertion timestamp found and the connection opened        *)
BeginAdd(p, user_id, route_date, data, fault) ==
  /\ calls[p].pc \in {"idle", "done"}
  /\ ops < MaxOps
  /\ ops' = ops + 1
  /\ UNCHANGED <<points, next_id>>
  /\ \/ /\ data.latitude = ABSENT \/ data.longitude = ABSENT
        /\ last' = Call("add_point", user_id, route_date, data, NULL, fault,
                        <<>>, NotCalled(""), 400)
        /\ UNCHANGED calls
     \/ /\ data.latitude # ABSENT /\ data.longitude # ABSENT
        /\ data.latitude = BADSTR \/ data.longitude = BADSTR
        /\ last' = Call("add_point", user_id, route_date, data, NULL, fault,
                        <<>>, NotCalled("ValueError"), 500)
        /\ UNCHANGED calls
     \/ /\ data.latitude \notin {ABSENT, BADSTR}
        /\ data.longitude \notin {ABSENT, BADSTR}
        /\ \E pts \in get_route_points(points, user_id, route_date) :
             LET out == add_point_to_route(points, next_id, user_id, route_date,
                                           data.latitude, data.longitude,
                                           data.altitude, data.accuracy,
                                           pts, fault)
             IN  IF out.core = "raised"
                 THEN /\ last' = Call("add_point", user_id, route_date, data,
                                      NULL, fault, pts, out, 500)
                      /\ UNCHANGED calls
                 ELSE /\ calls' = [calls EXCEPT ![p] =
                            InFlight("check", user_id, route_date, data, fault,
                                     pts, out.best_position, out.candidate,
                                     FALSE, out.candidate, NULL)]
                      /\ UNCHANGED last

(* SELECT id FROM points WHERE user_id = %s AND recorded_at = %s, and the  *)
(* shift by 5 s when it finds a row; a failing statement ends the call     *)
CheckCollision(p) ==
  LET c == calls[p]
      collided == TimestampTaken(points, c.user_id, c.candidate)
  IN  /\ c.pc = "check"
      /\ UNCHANGED <<points, next_id, ops>>
      /\ IF c.fault = "execute"
         THEN /\ last' = Call("add_point", c.user_id, c.route_date, c.data, NULL,
                              c.fault, c.route,
                              Outcome("returned", "", Failure("DatabaseError"),
                                      points, next_id, c.best_position,
                                      c.candidate, FALSE), 400)
              /\ calls' = [calls EXCEPT ![p] = Idle]
         ELSE /\ calls' = [calls EXCEPT ![p].pc = "insert",
                                        ![p].collided = collided,
                                        ![p].timestamp =
                                          IF collided
                                          THEN DtAdd(c.candidate, timedelta(ShiftSeconds))
                                          ELSE c.candidate]
              /\ UNCHANGED last

(* INSERT ... RETURNING id and conn.commit() *)
InsertAndCommit(p) ==
  LET c == calls[p]
      timestamp == InsertTimestamp(points, c)
      row == Row(next_id, c.user_id, c.data.latitude, c.data.longitude,
                 timestamp, AccuracyOrDefault(c.data.accuracy),
                 c.data.altitude, NULL, NULL)
  IN  /\ c.pc = "insert"
      /\ points' = points \cup {row}
      /\ next_id' = next_id + 1
      /\ last' = Call("add_point", c.user_id, c.route_date, c.data, NULL,
                      c.fault, c.route,
                      Outcome("returned", "", Added(next_id, timestamp),
                              points \cup {row}, next_id + 1, c.best_position,
                              c.candidate, c.collided), 201)
      /\ calls' = [calls EXCEPT ![p].pc = "done", ![p].point_id = next_id,
                                ![p].timestamp = timestamp]
      /\ UNCHANGED ops

(* the requests that race: two places to add, the two rejected bodies and *)
(* every store fault; the collision check reads neither altitude nor       *)
(* accuracy, which stay at their defaults                                  *)
RaceBodies ==
  {Body(1, 2, NULL, NULL), Body(3, 3, NULL, NULL),
   Body(ABSENT, 2, NULL, NULL), Body(BADSTR, 2, NULL, NULL)}

RaceRequests == {req \in AddRequests : req[1] \in RaceBodies}

NextRace ==
  \/ \E p \in Procs, user_id \in Users, route_date \in Dates, req \in RaceRequests :
       BeginAdd(p, user_id, route_date, req[1], req[2])
  \/ \E p \in Procs : CheckCollision(p)
  \/ \E p \in Procs : InsertAndCommit(p)

SpecRace == Init /\ [][NextRace]_vars

(* ============================== claims ================================== *)
(* the last call was add_point_to_route and it inserted a row *)
AddSucceeded ==
  last.op = "add_point" /\ last.core = "returned" /\ last.result.success

(* the timestamp the last successful add reported, and the row it inserted *)
Assigned == fromisoformat(last.result.timestamp)
InsertedRows == {r \in points : r.id = last.result.point_id}

(* the neighbours of the chosen gap *)
PrevTime == fromisoformat(last.route[last.best_position].recorded_at)
NextTime == fromisoformat(last.route[last.best_position + 1].recorded_at)

TakenBefore(t) ==
  \E r \in last.before : r.user_id = last.user_id /\ r.recorded_at = t

Later(td) == TD(td.days, td.seconds, td.microseconds + 1)

(* C1: no two points of one user share a recorded timestamp *)
C1_UniqueTimestamps ==
  \A r1, r2 \in points :
    (r1.user_id = r2.user_id /\ r1.recorded_at = r2.recorded_at) => r1 = r2

(* C2: placePoint on a user/date with no located point returns an "empty   *)
(* route" failure result and writes nothing                                *)
C2_EmptyRouteRejected ==
  ( /\ last.op = "add_point"
    /\ last.core # "not_called"
    /\ last.fault = "none"
    /\ RouteRows(last.before, last.user_id, last.route_date) = {} )
  => /\ last.core = "returned"
     /\ ~last.result.success
     /\ last.result.error # ""
     /\ points = last.before

(* C3: placePoint and deletePoint never end by raising: every failure is a *)
(* returned result with success = false and a reason                       *)
C3_FailuresAreResults ==
  last.core # "not_called"
  => /\ last.core = "returned"
     /\ (last.fault # "none" => ~last.result.success /\ last.result.error # "")

(* C4: on a route of two or more points the assigned timestamp lies        *)
(* strictly between the timestamps of the chosen gap                       *)
C4_StrictlyBetween ==
  (AddSucceeded /\ Len(last.route) >= 2)
  => DtLess(PrevTime, Assigned) /\ DtLess(Assigned, NextTime)

(* m is the exact midpoint of t1 and t2: as far from one as from the other *)
IsExactMidpoint(m, t1, t2) == DtSub(m, t1) = DtSub(t2, m)

(* m is the midpoint of t1 and t2 to the microsecond: the exact midpoint,  *)
(* or, where that falls on a half microsecond, the neighbour an even       *)
(* number of microseconds after t1                                         *)
IsRoundedMidpoint(m, t1, t2) ==
  \/ IsExactMidpoint(m, t1, t2)
  \/ /\ DtSub(m, t1).microseconds % 2 = 0
     /\ \/ Later(DtSub(m, t1)) = DtSub(t2, m)
        \/ DtSub(m, t1) = Later(DtSub(t2, m))

Shifted(t) == DtAdd(t, timedelta(ShiftSeconds))
Unshifted(t) == DtAdd(t, timedelta(0 - ShiftSeconds))

C6_FirstMinimalPenalty ==
  (last.op = "add_point" /\ last.core = "returned" /\ Len(last.route) >= 2)
  => /\ last.best_position \in 1 .. (Len(last.route) - 1)
     /\ \A j \in 1 .. (Len(last.route) - 1) :
          LET pj == distance_penalty(last.route, j,
                                     last.data.latitude, last.data.longitude)
              pb == distance_penalty(last.route, last.best_position,
                                     last.data.latitude, last.data.longitude)
          IN  pb <= pj /\ (j < last.best_position => pb < pj)

(* a later gap was chosen over the first, and a gap after it ties with it *)
C6_Witness ==
  /\ AddSucceeded
  /\ Len(last.route) >= 3
  /\ last.best_position >= 2
  /\ \E j \in (last.best_position + 1) .. (Len(last.route) - 1) :
       distance_penalty(last.route, j, last.data.latitude, last.data.longitude)
         = distance_penalty(last.route, last.best_position,
                            last.data.latitude, last.data.longitude)

(* the point id of the last delete is not a point of the calling user *)
NotOwned ==
  /\ last.op = "delete_point"
  /\ ~\E r \in last.before : r.id = last.point_id /\ r.user_id = last.user_id

(* C7: deleting a point id that is another user's removes nothing and ends *)
(* exactly as deleting an id no point has: what the call returns is        *)
(* decided by the store's health alone                                     *)
C7_ForeignLooksMissing ==
  NotOwned
  => /\ points = last.before
     /\ last.fault = "none"
          => /\ last.core = "returned"
             /\ last.result = Failure("Point not found or not authorized")
             /\ last.status = 400
     /\ last.fault = "execute"
          => /\ last.core = "returned"
             /\ last.result = Failure("DatabaseError")
     /\ last.fault = "connect" => last.core = "raised" /\ last.status = 500

(* a healthy store holds the point, and it is another user's *)
C7_Witness ==
  /\ NotOwned
  /\ last.fault = "none"
  /\ \E r \in last.before : r.id = last.point_id /\ r.user_id # last.user_id

(* C8: every row placePoint inserted has its coordinates in range *)
C8_InsertedInRange ==
  \A r \in points :
    r.id >= FirstFreeId
    => /\ r.latitude >= 0 - 90 /\ r.latitude <= 90
       /\ r.longitude >= 0 - 180 /\ r.longitude <= 180

(* C9: the inserted row carries the supplied accuracy, 20 only when none   *)
(* was supplied, the supplied altitude or null, and null speed and battery *)
C9_SuppliedAccuracyKept ==
  AddSucceeded
  => /\ InsertedRows # {}
     /\ \A r \in InsertedRows :
          /\ r.accuracy = IF last.data.accuracy = NULL THEN DefaultAccuracy
                          ELSE last.data.accuracy
          /\ r.altitude = last.data.altitude
          /\ r.speed = NULL
          /\ r.battery = NULL

OnlyTime == fromisoformat(last.route[1].recorded_at)
After(t, secs) == DtAdd(t, timedelta(secs))

(* C10 as stated: on a route of one point the assigned timestamp is that   *)
(* point's plus 30 s                                                       *)
C10_ThirtySecondsLater ==
  (AddSucceeded /\ Len(last.route) = 1)
  => Assigned = After(OnlyTime, 30)

(* C10 amended: on a route of one point the assigned timestamp is that     *)
(* point's plus 30 s, or plus 35 s when a point of the user already has    *)
(* the timestamp 30 s later, whatever coordinate is inserted               *)
C10_ThirtyOrShifted ==
  (AddSucceeded /\ Len(last.route) = 1)
  => Assigned = IF TakenBefore(After(OnlyTime, 30))
                THEN After(OnlyTime, 35)
                ELSE After(OnlyTime, 30)

(* an add to a one-point route whose point lies away from the inserted     *)
(* coordinate and whose timestamp plus 30 s was free                       *)
C10_Witness ==
  /\ AddSucceeded
  /\ Len(last.route) = 1
  /\ ~last.collided
  /\ last.route[1].latitude # last.data.latitude
  /\ Assigned = After(OnlyTime, 30)

(* C11: straight after a successful placePoint(user, date, ...) every      *)
(* answer of listPoints(user, date) holds the new point                    *)
C11_InsertedIsListed ==
  AddSucceeded
  => \A pts \in get_route_points(points, last.user_id, last.route_date) :
       \E i \in 1 .. Len(pts) : pts[i].id = last.result.point_id

(* the located rows of the user on a date, and those of them at or after a *)
(* cutoff                                                                  *)
LocatedOn(rows, user_id, d) ==
  {r \in rows : /\ r.user_id = user_id /\ r.recorded_at.day = d
                /\ r.latitude # NULL /\ r.longitude # NULL}
LocatedSince(rows, user_id, d, cutoff) ==
  {r \in LocatedOn(rows, user_id, d) : ~DtLess(r.recorded_at, cutoff)}

(* the cutoff of the last listRoutes call, counted in whole days *)
LastCutoff == DT(last.now.day - last.days_back, last.now.second, last.now.microsecond)

RoutesListed == last.op = "get_user_routes" /\ last.core = "returned"
PointsListed == last.op = "get_route_points" /\ last.core = "returned"

(* C12: listRoutes answers with a date only if the user has 5 or more      *)
(* located points on it inside the lookback window, whatever the lookback; *)
(* listPoints answers with every located point of the date, few or many    *)
C12_OnlyFullRoutesListed ==
  /\ RoutesListed
       => \A i \in 1 .. Len(last.route) :
            /\ Cardinality(LocatedSince(points, last.user_id,
                                        last.route[i].route_date, LastCutoff)) >= 5
            /\ last.route[i].point_count
                 = Cardinality(LocatedSince(points, last.user_id,
                                            last.route[i].route_date, LastCutoff))
  /\ PointsListed
       => {last.route[i].id : i \in 1 .. Len(last.route)}
            = {r.id : r \in LocatedOn(points, last.user_id, last.route_date)}

(* listRoutes answered with a date, and left out another date of the user  *)
(* that has located points, which listPoints still returns                 *)
C12_Witness ==
  /\ RoutesListed
  /\ Len(last.route) >= 1
  /\ \E d \in Dates :
       /\ \A i \in 1 .. Len(last.route) : last.route[i].route_date # d
       /\ LocatedOn(points, last.user_id, d) # {}
       /\ Cardinality(LocatedOn(points, last.user_id, d)) < 5
       /\ \A pts \in get_route_points(points, last.user_id, d) : Len(pts) >= 1

(* the row a finished request inserted *)
RowOf(p) == {r \in points : r.id = calls[p].point_id}

(* both requests are served, for one user, and each passed the collision   *)
(* check unshifted with the same candidate timestamp                       *)
BothPassed(p, q) ==
  /\ p # q
  /\ calls[p].pc = "done" /\ calls[q].pc = "done"
  /\ calls[p].user_id = calls[q].user_id
  /\ ~calls[p].collided /\ ~calls[q].collided
  /\ calls[p].candidate = calls[q].candidate

(* C13: two placePoint calls of one user that both passed the collision    *)
(* check with the same candidate each persist a row at that timestamp: the *)
(* insert does not look again, and the user has two points with one        *)
(* recorded timestamp                                                      *)
C13_BothPersistSameTimestamp ==
  \A p, q \in Procs :
    BothPassed(p, q)
    => /\ RowOf(p) # {} /\ RowOf(q) # {} /\ RowOf(p) # RowOf(q)
       /\ \A r \in RowOf(p) \cup RowOf(q) :
            r.user_id = calls[p].user_id /\ r.recorded_at = calls[p].candidate

(* two interleaved calls aimed at the same gap have both committed: the    *)
(* table, free of duplicates before, holds their two rows with one         *)
(* timestamp                                                               *)
C13_Witness ==
  \E p, q \in Procs :
    /\ BothPassed(p, q)
    /\ calls[p].route = calls[q].route
    /\ Len(calls[p].route) >= 2
    /\ calls[p].best_position = calls[q].best_position
    /\ \E r1 \in RowOf(p), r2 \in RowOf(q) :
         /\ r1 # r2
         /\ r1.user_id = r2.user_id
         /\ r1.recorded_at = r2.recorded_at
         /\ \A a, b \in points \ {r1, r2} :
              (a.user_id = b.user_id /\ a.recorded_at = b.recorded_at) => a = b

====
